---------------------------- MODULE Spec2Model ----------------------------
(***************************************************************************)
(* Model of the ZenFocus session controller of silragon-ryu/focus_lock.    *)
(*                                                                         *)
(* Two variants of the controller exist in the repository:                 *)
(*   variant "A"  src/main.py        one uninterrupted focus interval      *)
(*   variant "B"  src/focus_lock.py  25/5 focus/break segments, overlay,   *)
(*                                   reset button, F5 send-and-block       *)
(* The variant is fixed in the initial state.                              *)
(*                                                                         *)
(* Threads: the UI thread (Qt event loop: button handlers, QTimer slot)    *)
(* and one worker thread per start command (run_focus_session).  A UI      *)
(* handler is one step, except that update_timer's call of end_session is  *)
(* split from its guard, as the worker may run between the two.  The       *)
(* worker's launch phase and post-loop phase are split at every read or    *)
(* write of a field shared with the UI; the loop is split into the test of *)
(* its condition and one step per iteration (clock read, segment           *)
(* transition, enforcement tick).                                          *)
(*                                                                         *)
(* Specifications:                                                         *)
(*   Spec          both variants, up to MaxSessions sessions, start/reset  *)
(*                 at any moment, clock followed up to MaxTime             *)
(*   SpecSegments  variant B, one session of each duration run to its      *)
(*                 natural end, clock followed up to MaxTimeSegments       *)
(*   SpecVariantA  variant A, one session, clock followed past its end     *)
(*   SpecOverlap   variant B, a start accepted whenever start_btn is       *)
(*                 enabled, also while an earlier worker is alive          *)
(*   SpecFailures  Spec and the failure of the calls outside try blocks    *)
(*   SpecUnblock   unblock_shortcuts alone, from every set of blocked keys *)
(*   SpecPaths     get_sumatra_path / get_spotify_path on every platform   *)
(*                 and set of existing files                               *)
(*   SpecDisplay   variant B, a 45-minute session with update_timer split  *)
(*                 between its reads of the worker's fields                *)
(*   SpecFair      both variants, one session, failures of the unguarded   *)
(*                 calls, with fair scheduling of clock, QTimer and worker *)
(*   SpecHotkey    variant B, one session with reset, F6 pressed at any    *)
(*                 moment                                                  *)
(*   SpecDiscovery the window discovery loop alone, over every sequence of *)
(*                 window listings                                         *)
(*                                                                         *)
(* Time: `now` is time.time() in poll intervals of 0.5 s (the worker's     *)
(* time.sleep(0.5)).  Every duration option and both segment lengths are   *)
(* multiples of 5 minutes, and the clock is followed at the multiples of 5 *)
(* minutes (ClockStep) and, while the QTimer runs, at the last poll        *)
(* interval before the session's deadline, where the display refresh finds *)
(* less than one second left.  The worker sleeps at most 0.5 s per loop    *)
(* iteration and about 25 s while launching, far less than a clock step,   *)
(* so between two clock values every live worker reads the clock at least  *)
(* once (the `polled` flag).                                               *)
(*                                                                         *)
(* Collaborators (pygetwindow, keyboard, subprocess): a handle-scoped      *)
(* window call may fail with PyGetWindowException ("window gone"), a       *)
(* process launch may fail, an executable may be absent from the disk.     *)
(* keyboard.block_key / unblock_key are modelled by the set of blocked     *)
(* keys; unblock_key raises for the keys of failing_keys (none in Spec).   *)
(***************************************************************************)
EXTENDS Integers, Sequences, FiniteSets, TLC

\* ---------------------------------------------------------------- bounds
\* Number of worker threads that can be alive at the same time.
MaxWorkers == 2
\* Number of accepted start commands in one behaviour.
MaxSessions == 2
\* The clock stops advancing once it has reached MaxTime minutes.
MaxTime == 50
\* The same for the specification of the segment schedule (SpecSegments), whose
\* longest session lasts 180 minutes.
MaxTimeSegments == 185

\* ------------------------------------------------------- program constants
focus_interval_minutes == 25
break_interval_minutes == 5
\* "* 60": minutes to seconds
SecondsPerMinute == 60
\* time.sleep(0.5): two polls of the worker's loop per second
PollsPerSecond == 2
\* self.session_end_absolute_time = None, self.current_segment_end_time = None
NoTime == -1
\* items of duration_combo, and the item selected by the constructor
DurationsA == {15, 25, 30, 45, 60, 90, 120}
DurationsB == {45, 60, 90, 120, 150, 180}
DefaultDurationA == 25
DefaultDurationB == 90
\* the key list of block_shortcuts / unblock_shortcuts, and the fullscreen key
GeneralKeys == {"alt", "tab", "win", "esc", "ctrl", "f11"}
FullscreenKey == "f5"

\* A number of minutes as a time.time() difference, in poll intervals.
Minutes(m) == m * SecondsPerMinute * PollsPerSecond

\* The clock's granularity: the shortest segment length, which divides every
\* duration option and the focus interval.
ClockStep == Minutes(break_interval_minutes)

None == "None"
Workers == 1..MaxWorkers

VARIABLES
  variant,                     \* "A": src/main.py, "B": src/focus_lock.py
  now,                         \* time.time(), minutes
  \* ---- ZenFocus fields and widgets
  pdf_path,                    \* TRUE when a PDF has been selected
  duration_combo,              \* duration_combo.currentText()
  controls_enabled,            \* start_btn, select_btn, duration_combo enabled
  reset_enabled,               \* reset_btn enabled (variant B)
  session_active,
  is_on_break,
  current_segment_end_time,
  session_end_absolute_time,   \* end_time in variant A
  spotify_window_ref,
  f6_hotkey_id,
  timer_overlay,               \* TRUE when a TimerOverlay exists and is shown
  timer_active,                \* the QTimer is running
  dialog,                      \* the last message box shown
  ui_pc,                       \* "idle", or "end_body" inside update_timer
  \* ---- operating system
  blocked,                     \* keys blocked through keyboard.block_key
  taskbar_hidden,
  hotkeys,                     \* number of F6 hotkeys registered with keyboard
  \* ---- worker threads (functions of the worker)
  sessions,                    \* number of sessions started so far
  pc,
  pdf_window, spotify_window,  \* locals: the window found, or None
  allowed_handles,
  pdf_process, spotify_process,\* locals: TRUE when a Popen object exists
  polled,                      \* the worker has read the clock since its last step
  \* ---- observation (history) variables
  tick,                        \* what the step just taken did, if an enforcement tick
  seg_log,                     \* segments scheduled in the current session
  f5_sent,                     \* keyboard.send('f5') calls since the last start
  stop_signalled,              \* live workers whose session was ended or reset
  cleanups,                    \* end_session bodies run since the last start
  display,                     \* the last update_timer_text call of update_timer
  resolved,                    \* the last executable resolution and its inputs
  discovery,                   \* the window discovery loop: its locals and progress
  f6,                          \* the F6 callback: its position and the calls it made
  \* ---- a local of update_timer
  ut_locals,                   \* update_timer's locals while it is in progress
  \* ---- environment
  failing_keys                 \* keys for which keyboard.unblock_key raises

vars == << variant, now, pdf_path, duration_combo, controls_enabled,
           reset_enabled, session_active, is_on_break,
           current_segment_end_time, session_end_absolute_time,
           spotify_window_ref, f6_hotkey_id, timer_overlay, timer_active,
           dialog, ui_pc, blocked, taskbar_hidden, hotkeys, sessions, pc,
           pdf_window, spotify_window, allowed_handles, pdf_process,
           spotify_process, polled, tick, seg_log, f5_sent, stop_signalled,
           cleanups, display, resolved, ut_locals, discovery, f6,
           failing_keys >>

uiFields == << pdf_path, duration_combo, controls_enabled, reset_enabled,
               timer_overlay, timer_active, dialog, ui_pc >>
sessionFields == << session_active, is_on_break, current_segment_end_time,
                    session_end_absolute_time >>
hotkeyFields == << spotify_window_ref, f6_hotkey_id, hotkeys >>
osFields == << blocked, taskbar_hidden >>
historyFields == << f5_sent, stop_signalled, cleanups >>
displayFields == << ut_locals, display >>
workerLocals == << pdf_window, spotify_window, allowed_handles, pdf_process,
                   spotify_process >>

\* What one enforcement tick did: the active window reported, whether it was
\* allowed, the two window references before the tick, the window calls issued
\* (in order), the process relaunched, and what poll() said of each process.
TickRecord(k, w, a, ok, pw, sw, cs, rl, pp, sp) ==
  [kind |-> k, worker |-> w, active |-> a, allowed |-> ok, pdf_before |-> pw,
   spotify_before |-> sw, calls |-> cs, relaunch |-> rl, pdf_poll |-> pp,
   spotify_poll |-> sp]

NoTick ==
  TickRecord("none", 0, None, FALSE, None, None, << >>, "none", "nopoll", "nopoll")

\* Nothing was resolved yet.
NoResolution ==
  [platform |-> None, files |-> {}, sumatra |-> None, spotify |-> None]

\* update_timer_text was not called: no text (hours, minutes, seconds), no
\* mode label, no colour.
NoDisplay ==
  [calls |-> 0, seconds |-> 0, text |-> << >>, mode_text |-> None,
   mode_color |-> None]

\* The discovery loop has not begun: no poll made, both locals None.
NoDiscovery ==
  [attempts |-> 0, all_windows |-> << >>, pdf_window |-> None,
   spotify_window |-> None, finished |-> FALSE]

\* No F6 callback has run: none is in progress and no call was made.
NoCallback ==
  [pc |-> "idle", ran |-> FALSE, minimized |-> FALSE, calls |-> << >>]

\* update_timer is not in progress.
NoLocals == [remaining_segment |-> 0, total_remaining |-> 0, mode_text |-> None]

\* The items of duration_combo the user picks: those of a session that can end
\* before the clock stops (the constructor's default is kept whatever it is).
Durations ==
  {d \in (IF variant = "A" THEN DurationsA ELSE DurationsB) : d <= MaxTime}

InitFields ==
  /\ variant \in {"A", "B"}
  /\ now = 0
  /\ pdf_path = FALSE
  /\ duration_combo = IF variant = "A" THEN DefaultDurationA ELSE DefaultDurationB
  /\ controls_enabled = TRUE
  /\ reset_enabled = FALSE
  /\ session_active = FALSE
  /\ is_on_break = FALSE
  /\ current_segment_end_time = NoTime
  /\ session_end_absolute_time = NoTime
  /\ spotify_window_ref = None
  /\ f6_hotkey_id = None
  /\ timer_overlay = FALSE
  /\ timer_active = FALSE
  /\ dialog = "none"
  /\ ui_pc = "idle"
  /\ taskbar_hidden = FALSE
  /\ hotkeys = 0
  /\ sessions = 0
  /\ pc = [w \in Workers |-> "unborn"]
  /\ pdf_window = [w \in Workers |-> None]
  /\ spotify_window = [w \in Workers |-> None]
  /\ allowed_handles = [w \in Workers |-> {}]
  /\ pdf_process = [w \in Workers |-> FALSE]
  /\ spotify_process = [w \in Workers |-> FALSE]
  /\ polled = [w \in Workers |-> FALSE]
  /\ tick = NoTick
  /\ seg_log = << >>
  /\ f5_sent = 0
  /\ stop_signalled = {}
  /\ cleanups = 0
  /\ display = NoDisplay
  /\ resolved = NoResolution
  /\ ut_locals = NoLocals
  /\ discovery = NoDiscovery
  /\ f6 = NoCallback

\* After construction no key is blocked; keyboard.unblock_key does not fail.
Init == InitFields /\ blocked = {} /\ failing_keys = {}


\* ------------------------------------------------------------ collaborators
\* The key list of unblock_shortcuts, in the order of its for loop.
KeyList == << "alt", "tab", "win", "esc", "ctrl", "f11" >>

\* A run of unblock_shortcuts: the keys blocked afterwards, the keys on which
\* keyboard.unblock_key was called, whether an exception left the method.
UnblockResult(keys, attempted, raised) ==
  [blocked |-> keys, attempted |-> attempted, raised |-> raised]

RECURSIVE UnblockFrom(_, _, _)

\* An exception of keyboard.unblock_key that leaves the loop.
OnKeyErrorPropagates(keys, i, attempted) ==
  UnblockResult(keys, Append(attempted, KeyList[i]), TRUE)

\* "except Exception: pass": the loop goes on with the next key.
OnKeyError(keys, i, attempted) ==
  UnblockFrom(keys, i + 1, Append(attempted, KeyList[i]))

\* The for loop of unblock_shortcuts from the i-th key on.
UnblockFrom(keys, i, attempted) ==
  IF i > Len(KeyList) THEN UnblockResult(keys, attempted, FALSE)
  ELSE IF KeyList[i] \in failing_keys THEN OnKeyError(keys, i, attempted)
  ELSE UnblockFrom(keys \ {KeyList[i]}, i + 1, Append(attempted, KeyList[i]))

\* unblock_shortcuts / block_shortcuts: the keys blocked afterwards.
unblock_shortcuts(keys) == UnblockFrom(keys, 1, << >>).blocked

\* A block_shortcuts whose key list lacks 'ctrl'.
block_shortcuts_without_ctrl(keys) == keys \cup (GeneralKeys \ {"ctrl"})

block_shortcuts(keys) == keys \cup GeneralKeys

\* A worker that leaves the fullscreen key as it is.
unblock_f5_omitted(keys) == keys

\* keyboard.unblock_key('f5') at the end of run_focus_session.
unblock_f5(keys) == keys \ {FullscreenKey}

Live(w) == pc[w] \notin {"unborn", "done", "crashed"}

\* threading.Thread(...).start(): the new thread takes the first free slot.
FreeWorker ==
  CHOOSE w \in Workers : ~Live(w) /\ \A v \in Workers : ~Live(v) => w <= v

Min(a, b) == IF a <= b THEN a ELSE b

Max(a, b) == IF a >= b THEN a ELSE b

\* int(x) of a time difference x given in poll intervals: whole seconds,
\* truncated towards zero.
IntSeconds(d) ==
  IF d >= 0 THEN d \div PollsPerSecond ELSE 0 - ((0 - d) \div PollsPerSecond)

\* ------------------------------------------------------------------ UI thread
\* select_pdf: the file dialog returned a path.
select_pdf ==
  /\ ui_pc = "idle" /\ controls_enabled
  /\ pdf_path' = TRUE
  /\ UNCHANGED << variant, failing_keys, discovery, f6, resolved, displayFields, historyFields, sessions, now, duration_combo, controls_enabled, reset_enabled,
                  timer_overlay, timer_active, dialog, ui_pc, sessionFields,
                  hotkeyFields, osFields, pc, polled, workerLocals,
                  seg_log >>
  /\ tick' = NoTick

\* The user picks another item of duration_combo.
choose_duration ==
  /\ ui_pc = "idle" /\ controls_enabled
  /\ \E d \in Durations \ {duration_combo} : duration_combo' = d
  /\ UNCHANGED << variant, failing_keys, discovery, f6, resolved, displayFields, historyFields, sessions, now, pdf_path, controls_enabled, reset_enabled,
                  timer_overlay, timer_active, dialog, ui_pc, sessionFields,
                  hotkeyFields, osFields, pc, polled, workerLocals,
                  seg_log >>
  /\ tick' = NoTick

\* A start_focus without its first check.
PdfCheckOmitted == FALSE

\* start_focus, line 1: "if not self.pdf_path".
NoPdfSelected == ~pdf_path

\* start_focus: the first focus segment ends focus_interval_minutes from now.
InitialSegmentEnd == now + Minutes(focus_interval_minutes)

\* A deadline computed without the "* 60".
SessionEndInMinutes == now + duration_combo * PollsPerSecond

\* start_focus: the session ends the selected number of minutes from now.
SessionEnd == now + Minutes(duration_combo)

\* start_focus with no PDF selected: the warning box, and nothing else.
start_rejected ==
  /\ ui_pc = "idle" /\ controls_enabled
  /\ NoPdfSelected
  /\ dialog' = "warning"
  /\ UNCHANGED << variant, failing_keys, discovery, f6, resolved, displayFields, historyFields, sessions, now, pdf_path, duration_combo, controls_enabled,
                  reset_enabled, timer_overlay, timer_active, ui_pc,
                  sessionFields, hotkeyFields, osFields, pc, polled,
                  workerLocals, seg_log >>
  /\ tick' = NoTick

\* start_focus with a PDF selected: sets the Session fields, shows the overlay
\* (variant B), disables the controls, starts the QTimer and the worker thread.
start_accepted ==
  /\ ui_pc = "idle" /\ controls_enabled
  /\ ~NoPdfSelected
  /\ sessions < MaxSessions
  /\ \E w \in Workers : ~Live(w)
  /\ sessions' = sessions + 1
  /\ session_end_absolute_time' = SessionEnd
  /\ session_active' = TRUE
  /\ IF variant = "B"
       THEN /\ is_on_break' = FALSE
            /\ current_segment_end_time' = InitialSegmentEnd
            /\ timer_overlay' = TRUE
            /\ reset_enabled' = TRUE
            /\ seg_log' = << [mode |-> "F", from |-> now,
                              to |-> InitialSegmentEnd] >>
       ELSE UNCHANGED << is_on_break, current_segment_end_time, timer_overlay,
                         reset_enabled, seg_log >>
  /\ controls_enabled' = FALSE
  /\ timer_active' = TRUE
  /\ dialog' = "none"
  /\ pc' = [pc EXCEPT ![FreeWorker] = "block"]
  /\ polled' = [polled EXCEPT ![FreeWorker] = TRUE]
  /\ f5_sent' = 0
  /\ cleanups' = 0
  /\ stop_signalled' = stop_signalled \ {FreeWorker}
  /\ UNCHANGED << variant, failing_keys, discovery, f6, resolved, displayFields, now, pdf_path, duration_combo, ui_pc, hotkeyFields,
                  osFields, workerLocals >>
  /\ tick' = NoTick

start_focus == start_rejected \/ start_accepted

\* end_session past its guard (both variants); reset_session of variant B does
\* the same to these fields but shows another box.
Cleanup(box) ==
  /\ session_active' = FALSE
  /\ blocked' = unblock_shortcuts(blocked)
  /\ taskbar_hidden' = FALSE
  /\ IF f6_hotkey_id # None
       THEN f6_hotkey_id' = None /\ hotkeys' = hotkeys - 1
       ELSE UNCHANGED << f6_hotkey_id, hotkeys >>
  /\ spotify_window_ref' = None
  /\ timer_overlay' = FALSE
  /\ controls_enabled' = TRUE
  /\ reset_enabled' = FALSE
  /\ timer_active' = FALSE
  /\ dialog' = box

\* update_timer: total_remaining = max(0, int(end - time.time()))
TotalRemaining == Max(0, IntSeconds(session_end_absolute_time - now))

\* update_timer's "total_remaining == 0".
TotalRemainingIsZero == TotalRemaining = 0

\* An update_timer that calls end_session in both variants.
CallsEndSessionAlways == TRUE

\* update_timer of variant B calls self.end_session() when the time is up;
\* that of variant A has no such call.
CallsEndSession == variant = "B"

\* The QTimer's slot.  Variant A stops the timer when the time is up; variant B
\* then also calls end_session, if the session is still active.
update_timer ==
  /\ ui_pc = "idle" /\ timer_active
  /\ IF TotalRemainingIsZero /\ (variant = "A" \/ session_active)
       THEN /\ timer_active' = FALSE
            /\ ui_pc' = IF CallsEndSession THEN "end_session" ELSE "idle"
       ELSE UNCHANGED << timer_active, ui_pc >>
  /\ UNCHANGED << variant, failing_keys, discovery, f6, resolved, displayFields, historyFields, sessions, now, pdf_path, duration_combo, controls_enabled,
                  reset_enabled, timer_overlay, dialog, sessionFields,
                  hotkeyFields, osFields, pc, polled, workerLocals,
                  seg_log >>
  /\ tick' = NoTick

\* end_session called by update_timer: its guard "if not self.session_active".
ui_end_guard ==
  /\ ui_pc = "end_session"
  /\ ui_pc' = IF session_active THEN "end_body" ELSE "idle"
  /\ UNCHANGED << variant, failing_keys, discovery, f6, resolved, displayFields, historyFields, sessions, now, pdf_path, duration_combo, controls_enabled,
                  reset_enabled, timer_overlay, timer_active, dialog,
                  sessionFields, hotkeyFields, osFields, pc, polled,
                  workerLocals, seg_log >>
  /\ tick' = NoTick

\* end_session called by update_timer: the body.
ui_end_body ==
  /\ ui_pc = "end_body"
  /\ Cleanup("complete")
  /\ cleanups' = cleanups + 1
  /\ stop_signalled' = {w \in Workers : Live(w)}
  /\ ui_pc' = "idle"
  /\ UNCHANGED << variant, failing_keys, discovery, f6, resolved, displayFields, f5_sent, sessions, now, pdf_path, duration_combo, is_on_break,
                  current_segment_end_time, session_end_absolute_time, pc, polled, workerLocals, seg_log >>
  /\ tick' = NoTick

\* reset_session (variant B): the handler of reset_btn.
reset_session ==
  /\ variant = "B" /\ ui_pc = "idle" /\ reset_enabled
  /\ Cleanup("reset")
  /\ stop_signalled' = {w \in Workers : Live(w)}
  /\ UNCHANGED << variant, failing_keys, discovery, f6, resolved, displayFields, f5_sent, cleanups, sessions, now, pdf_path, duration_combo, ui_pc, is_on_break,
                  current_segment_end_time, session_end_absolute_time, pc, polled, workerLocals, seg_log >>
  /\ tick' = NoTick

\* ---------------------------------------------------------------------- clock
\* The next multiple of ClockStep after t.
NextGrid(t) == ((t \div ClockStep) + 1) * ClockStep

\* The next clock value that is followed: the next multiple of ClockStep, or
\* before it the last poll interval before the deadline while the QTimer runs.
ClockTargets ==
  {NextGrid(now)} \cup
  {t \in {session_end_absolute_time - 1} :
     timer_active /\ now < t /\ t < NextGrid(now)}

\* time.time() advances to the next clock value, up to the horizon (minutes).
\* No live worker has missed a clock value, and no UI handler is in progress.
ClockAdvances(horizon) ==
  /\ now < Minutes(horizon)
  /\ ui_pc = "idle"
  /\ \A w \in Workers : Live(w) => polled[w]
  /\ \E t \in ClockTargets : now' = t
  /\ polled' = [w \in Workers |-> FALSE]
  /\ UNCHANGED << variant, failing_keys, discovery, f6, resolved, displayFields, historyFields, sessions, uiFields, sessionFields, hotkeyFields,
                  osFields, pc, workerLocals, seg_log >>
  /\ tick' = NoTick

\* The clock is followed while the QTimer or a worker thread is running.
Advance(horizon) ==
  /\ timer_active \/ \E w \in Workers : Live(w)
  /\ ClockAdvances(horizon)

Tick == Advance(MaxTime)

\* -------------------------------------------------------------- worker thread
Goto(w, label) == pc' = [pc EXCEPT ![w] = label]

\* How a launch can go: the executable is on none of the probed paths
\* (get_sumatra_path / get_spotify_path return None), Popen raises, Popen
\* returns a process.
LaunchOutcomes == {"nopath", "fail", "ok"}

\* A launch whose exception is not caught: the worker thread dies.
AfterLaunchUncaught(pdf_outcome, spotify_outcome) ==
  IF pdf_outcome = "fail" \/ spotify_outcome = "fail"
    THEN "crashed" ELSE "discover"

\* What a failed launch does to the worker: the exception is caught
\* ("except Exception") and the worker goes on to window discovery.
AfterLaunch(pdf_outcome, spotify_outcome) == "discover"

\* run_focus_session: self.block_shortcuts()
w_block(w) ==
  /\ pc[w] = "block"
  /\ blocked' = block_shortcuts(blocked)
  /\ Goto(w, "hide")
  /\ UNCHANGED << variant, failing_keys, discovery, f6, resolved, displayFields, historyFields, sessions, now, uiFields, sessionFields, hotkeyFields,
                  taskbar_hidden, polled, workerLocals, seg_log >>
  /\ tick' = NoTick

\* run_focus_session: self._hide_taskbar()
w_hide(w) ==
  /\ pc[w] = "hide"
  /\ taskbar_hidden' = TRUE
  /\ Goto(w, "launch")
  /\ UNCHANGED << variant, failing_keys, discovery, f6, resolved, displayFields, historyFields, sessions, now, uiFields, sessionFields, hotkeyFields, blocked,
                  polled, workerLocals, seg_log >>
  /\ tick' = NoTick

\* run_focus_session: resolve and launch SumatraPDF, then Spotify.
w_launch(w) ==
  /\ pc[w] = "launch"
  /\ \E po \in LaunchOutcomes, so \in LaunchOutcomes :
       /\ pdf_process' = [pdf_process EXCEPT ![w] = (po = "ok")]
       /\ spotify_process' = [spotify_process EXCEPT ![w] = (so = "ok")]
       /\ Goto(w, AfterLaunch(po, so))
  /\ UNCHANGED << variant, failing_keys, discovery, f6, resolved, displayFields, historyFields, sessions, now, uiFields, sessionFields, hotkeyFields, osFields,
                  polled, pdf_window, spotify_window, allowed_handles,
                  seg_log >>
  /\ tick' = NoTick

\* run_focus_session: time.sleep(6), then up to 15 polls of gw.getAllWindows().
\* A window whose title contains ".pdf" (resp. "spotify") is kept when one is
\* listed; it need not belong to the process this worker launched.
w_discover(w) ==
  /\ pc[w] = "discover"
  /\ \E found_pdf \in BOOLEAN, found_spotify \in BOOLEAN :
       /\ pdf_window' = [pdf_window EXCEPT
                           ![w] = IF found_pdf THEN "pdf" ELSE None]
       /\ spotify_window' = [spotify_window EXCEPT
                           ![w] = IF found_spotify THEN "spotify" ELSE None]
  /\ Goto(w, "store_ref")
  /\ UNCHANGED << variant, failing_keys, discovery, f6, resolved, displayFields, historyFields, sessions, now, uiFields, sessionFields, hotkeyFields, osFields,
                  polled, allowed_handles, pdf_process,
                  spotify_process, seg_log >>
  /\ tick' = NoTick

\* run_focus_session: self.spotify_window_ref = spotify_window
w_store_ref(w) ==
  /\ pc[w] = "store_ref"
  /\ spotify_window_ref' = spotify_window[w]
  /\ Goto(w, "reg_hotkey")
  /\ UNCHANGED << variant, failing_keys, discovery, f6, resolved, displayFields, historyFields, sessions, now, uiFields, sessionFields, f6_hotkey_id, hotkeys,
                  osFields, polled, workerLocals, seg_log >>
  /\ tick' = NoTick

\* run_focus_session: "if self.spotify_window_ref:" keyboard.add_hotkey('f6', ..)
RegistersHotkey == spotify_window_ref # None

w_reg_hotkey(w) ==
  /\ pc[w] = "reg_hotkey"
  /\ IF RegistersHotkey
       THEN f6_hotkey_id' = "f6" /\ hotkeys' = hotkeys + 1
       ELSE UNCHANGED << f6_hotkey_id, hotkeys >>
  /\ Goto(w, "init_pdf")
  /\ UNCHANGED << variant, failing_keys, discovery, f6, resolved, displayFields, historyFields, sessions, now, uiFields, sessionFields, spotify_window_ref,
                  osFields, polled, workerLocals, seg_log >>
  /\ tick' = NoTick

\* The allowed_handles set built from the two window locals.
AllowedOf(pw, sw) == {h \in {pw, sw} : h # None}

\* run_focus_session: maximize and activate the PDF window; variant B then sends
\* F5 and blocks it.  "gone": a window call raised PyGetWindowException;
\* "send_error": keyboard.send raised; "block_error": keyboard.block_key
\* raised after F5 was sent.  Then build allowed_handles.
InitPdfOutcomes ==
  IF variant = "B" THEN {"ok", "gone", "send_error", "block_error"}
                   ELSE {"ok", "gone"}

\* keyboard.send('f5') went through.
SendsF5(out) == variant = "B" /\ out \in {"ok", "block_error"}

w_init_pdf(w) ==
  /\ pc[w] = "init_pdf"
  /\ \E out \in (IF pdf_window[w] # None THEN InitPdfOutcomes ELSE {"absent"}) :
       /\ pdf_window' = [pdf_window EXCEPT
                           ![w] = IF out = "gone" \/ out = "absent"
                                    THEN None ELSE pdf_window[w]]
       /\ blocked' = IF out = "ok" /\ variant = "B"
                       THEN blocked \cup {FullscreenKey} ELSE blocked
       /\ f5_sent' = IF SendsF5(out) THEN f5_sent + 1 ELSE f5_sent
  /\ allowed_handles' = [allowed_handles EXCEPT
                           ![w] = AllowedOf(pdf_window'[w], spotify_window[w])]
  /\ Goto(w, "loop_check")
  /\ UNCHANGED << variant, failing_keys, discovery, f6, resolved, displayFields, stop_signalled, cleanups, sessions, now,
                  uiFields, sessionFields, hotkeyFields,
                  taskbar_hidden, polled, spotify_window, pdf_process,
                  spotify_process, seg_log >>
  /\ tick' = NoTick

\* A loop that does not look at the clock.
LoopConditionNoDeadline == session_active

\* The loop condition: time.time() < end and self.session_active.
LoopCondition == now < session_end_absolute_time /\ session_active

\* The head of the main loop.  Variant A has no other clock read in the loop.
w_loop_check(w) ==
  /\ pc[w] = "loop_check"
  /\ IF LoopCondition
       THEN /\ Goto(w, "body")
            /\ polled' = [polled EXCEPT ![w] = (variant = "A" \/ polled[w])]
       ELSE Goto(w, "post_unblock") /\ UNCHANGED polled
  /\ tick' = NoTick
  /\ UNCHANGED << variant, failing_keys, discovery, f6, resolved, displayFields, historyFields, sessions, now, uiFields, sessionFields, hotkeyFields, osFields,
                  workerLocals, seg_log >>

\* ------------------------------------------------- one iteration of the loop
\* What gw.getActiveWindow() can report: nothing, one of the two target
\* windows, the timer overlay (variant B), any other window.
ActiveWindows ==
  {None, "pdf", "spotify", "other"} \cup (IF variant = "B" THEN {"overlay"} ELSE {})

\* An is_allowed that follows the window locals instead of the handles stored
\* before the loop.
IsAllowedByReference(w, active) ==
  /\ active # None
  /\ \/ active \in {pdf_window[w], spotify_window[w]}
     \/ variant = "B" /\ timer_overlay /\ active = "overlay"

\* An is_allowed that knows the two target windows only.
IsAllowedByHandleOnly(w, active) ==
  active # None /\ active \in allowed_handles[w]

\* "is_allowed": the active window's handle is in allowed_handles, or (variant
\* B) it is the visible timer overlay.
IsAllowed(w, active) ==
  /\ active # None
  /\ \/ active \in allowed_handles[w]
     \/ variant = "B" /\ timer_overlay /\ active = "overlay"

\* A chain that tries the player before the viewer.
EnforceTargetPlayerFirst(pw, sw) ==
  IF sw # None THEN "spotify"
  ELSE IF pw # None THEN "pdf"
  ELSE "relaunch"

\* The if / elif / else chain under "if not is_allowed", given the two window
\* locals.
EnforceTarget(pw, sw) ==
  IF pw # None THEN "pdf"
  ELSE IF sw # None THEN "spotify"
  ELSE "relaunch"

\* The calls made on the target window, when none of them fails.
WindowCalls(target, minimized) ==
  << target \o ".isMinimized" >>
    \o (IF minimized THEN << target \o ".restore" >> ELSE << >>)
    \o << target \o ".activate", target \o ".raise_" >>

\* The else branch: "if pdf_process and pdf_process.poll() is None" relaunches
\* SumatraPDF, "elif spotify_process and spotify_process.poll() is None"
\* relaunches Spotify.  poll() is None while the process is running.
RelaunchTarget(has_pdf, pdf_running, has_spotify, spotify_running) ==
  IF has_pdf /\ pdf_running THEN "pdf"
  ELSE IF has_spotify /\ spotify_running THEN "spotify"
  ELSE "none"

\* The else branch of variant B ends by activating and raising the overlay.
OverlayCalls ==
  IF variant = "B" /\ timer_overlay
    THEN << "overlay.activateWindow", "overlay.raise_" >>
    ELSE << >>

PollResult(has_process, running) ==
  IF ~has_process THEN "nopoll" ELSE IF running THEN "running" ELSE "exited"

\* The iteration does no enforcement (a break, or the loop is left).
NoEnforcement(w, kind, pw) ==
  /\ tick' = TickRecord(kind, w, None, FALSE, pw, spotify_window[w], << >>,
                        "none", "nopoll", "nopoll")
  /\ pdf_window' = [pdf_window EXCEPT ![w] = pw]
  /\ UNCHANGED spotify_window

\* The enforcement tick of the iteration; pw is the PDF window local as the
\* segment transition left it.  A window call that raises
\* PyGetWindowException ends the calls and sets the local to None.
Enforcement(w, pw) ==
  \E active \in ActiveWindows :
    IF IsAllowed(w, active)
      THEN /\ tick' = TickRecord("enforce", w, active, TRUE, pw,
                                 spotify_window[w], << >>, "none", "nopoll",
                                 "nopoll")
           /\ pdf_window' = [pdf_window EXCEPT ![w] = pw]
           /\ UNCHANGED spotify_window
      ELSE
        \/ /\ EnforceTarget(pw, spotify_window[w]) \in {"pdf", "spotify"}
           /\ \E minimized \in BOOLEAN :
                LET target == EnforceTarget(pw, spotify_window[w])
                    all == WindowCalls(target, minimized)
                IN \E failing \in 0..Len(all) :
                     LET made == IF failing = 0 THEN all
                                 ELSE SubSeq(all, 1, failing)
                     IN /\ tick' = TickRecord("enforce", w, active, FALSE, pw,
                                              spotify_window[w], made, "none",
                                              "nopoll", "nopoll")
                        /\ pdf_window' = [pdf_window EXCEPT ![w] =
                             IF failing # 0 /\ target = "pdf" THEN None ELSE pw]
                        /\ spotify_window' = [spotify_window EXCEPT ![w] =
                             IF failing # 0 /\ target = "spotify"
                               THEN None ELSE spotify_window[w]]
        \/ /\ EnforceTarget(pw, spotify_window[w]) = "relaunch"
           /\ \E pdf_running \in BOOLEAN, spotify_running \in BOOLEAN :
                tick' = TickRecord("enforce", w, active, FALSE, pw,
                          spotify_window[w], OverlayCalls,
                          RelaunchTarget(pdf_process[w], pdf_running,
                                         spotify_process[w], spotify_running),
                          PollResult(pdf_process[w], pdf_running),
                          PollResult(spotify_process[w], spotify_running))
           /\ pdf_window' = [pdf_window EXCEPT ![w] = pw]
           /\ UNCHANGED spotify_window

\* A segment that is due only after its end time has passed.
SegmentDueLate(current_time) == current_time > current_segment_end_time

\* "if current_time >= self.current_segment_end_time"
SegmentDue(current_time) == current_time >= current_segment_end_time

\* The minimize calls at the start of a break: on each window local that is
\* set, the viewer first.  A PyGetWindowException is passed over.
MinimizeCalls(pw, sw) ==
  (IF pw # None THEN << "pdf.minimize" >> ELSE << >>)
    \o (IF sw # None THEN << "spotify.minimize" >> ELSE << >>)

\* A break scheduled with the length of a focus segment.
BreakOfFocusLength(current_time) == current_time + Minutes(focus_interval_minutes)

\* End of a focus segment: "current_segment_end_time = current_time + break"
BreakEnd(current_time) == current_time + Minutes(break_interval_minutes)

\* A focus segment that takes all the time that is left.
NextFocusAllRemaining(current_time) ==
  session_end_absolute_time - current_time

\* A next focus segment that ignores what is left of the session.
NextFocusUntruncated(current_time) == Minutes(focus_interval_minutes)

\* "next_focus_duration = min(self.focus_interval_minutes * 60, remaining_total)"
NextFocusDuration(current_time) ==
  Min(Minutes(focus_interval_minutes),
      session_end_absolute_time - current_time)

\* Variant A: the loop body is the enforcement tick and time.sleep(0.5).
w_iteration_A(w) ==
  /\ variant = "A" /\ pc[w] = "body"
  /\ Enforcement(w, pdf_window[w])
  /\ Goto(w, "loop_check")
  /\ UNCHANGED << variant, failing_keys, discovery, f6, resolved, displayFields, historyFields, sessions, now, uiFields, sessionFields, hotkeyFields, osFields,
                  polled, allowed_handles, pdf_process,
                  spotify_process, seg_log >>

\* An enforcement that does not look at the mode.
EnforcesInEveryMode == TRUE

\* "if not self.is_on_break": enforcement only in focus mode.
EnforcesFocus == ~is_on_break

\* Variant B, no segment boundary reached: the enforcement tick, unless on break.
w_iteration_steady(w) ==
  /\ variant = "B" /\ pc[w] = "body"
  /\ ~SegmentDue(now)
  /\ IF ~EnforcesFocus
       THEN NoEnforcement(w, "break", pdf_window[w])
       ELSE Enforcement(w, pdf_window[w])
  /\ polled' = [polled EXCEPT ![w] = TRUE]
  /\ Goto(w, "loop_check")
  /\ UNCHANGED << variant, failing_keys, discovery, f6, resolved, displayFields, historyFields, sessions, now, uiFields, sessionFields, hotkeyFields, osFields,
                  allowed_handles, pdf_process, spotify_process,
                  seg_log >>

\* Variant B, end of a focus segment: is_on_break, unblock_shortcuts,
\* _show_taskbar, minimize both windows (a PyGetWindowException is passed
\* over), the break's end; no enforcement while on break.
w_iteration_to_break(w) ==
  /\ variant = "B" /\ pc[w] = "body"
  /\ SegmentDue(now) /\ ~is_on_break
  /\ is_on_break' = TRUE
  /\ blocked' = unblock_shortcuts(blocked)
  /\ taskbar_hidden' = FALSE
  /\ current_segment_end_time' = BreakEnd(now)
  /\ seg_log' = Append(seg_log, [mode |-> "B", from |-> now, to |-> BreakEnd(now)])
  /\ tick' = TickRecord("to_break", w, None, FALSE, pdf_window[w],
                        spotify_window[w],
                        MinimizeCalls(pdf_window[w], spotify_window[w]),
                        "none", "nopoll", "nopoll")
  /\ UNCHANGED << pdf_window, spotify_window >>
  /\ polled' = [polled EXCEPT ![w] = TRUE]
  /\ Goto(w, "loop_check")
  /\ UNCHANGED << variant, failing_keys, discovery, f6, resolved, displayFields, historyFields, sessions, now, uiFields, session_active,
                  session_end_absolute_time, hotkeyFields, allowed_handles, pdf_process, spotify_process >>

\* Variant B, end of a break: block_shortcuts, _hide_taskbar, re-activate the
\* PDF window (PyGetWindowException: pdf_window = None), restore Spotify
\* (exception passed over), then the next focus segment and the enforcement
\* tick, or "break" out of the loop when no focus time is left.
w_iteration_to_focus(w) ==
  /\ variant = "B" /\ pc[w] = "body"
  /\ SegmentDue(now) /\ is_on_break
  /\ is_on_break' = FALSE
  /\ blocked' = block_shortcuts(blocked)
  /\ taskbar_hidden' = TRUE
  /\ \E gone \in (IF pdf_window[w] # None THEN BOOLEAN ELSE {FALSE}) :
       LET pw == IF gone THEN None ELSE pdf_window[w]
       IN IF NextFocusDuration(now) > 0
            THEN /\ current_segment_end_time' = now + NextFocusDuration(now)
                 /\ seg_log' = Append(seg_log,
                      [mode |-> "F", from |-> now,
                       to |-> now + NextFocusDuration(now)])
                 /\ Enforcement(w, pw)
                 /\ Goto(w, "loop_check")
            ELSE /\ UNCHANGED << current_segment_end_time, seg_log >>
                 /\ NoEnforcement(w, "left", pw)
                 /\ Goto(w, "post_unblock")
  /\ polled' = [polled EXCEPT ![w] = TRUE]
  /\ UNCHANGED << variant, failing_keys, discovery, f6, resolved, displayFields, historyFields, sessions, now, uiFields, session_active,
                  session_end_absolute_time, hotkeyFields, allowed_handles, pdf_process, spotify_process >>

\* ------------------------------------------------------------------ after loop
\* The thread's locals die with it.
Retire(w) ==
  /\ Goto(w, "done")
  /\ pdf_window' = [pdf_window EXCEPT ![w] = None]
  /\ spotify_window' = [spotify_window EXCEPT ![w] = None]
  /\ allowed_handles' = [allowed_handles EXCEPT ![w] = {}]
  /\ pdf_process' = [pdf_process EXCEPT ![w] = FALSE]
  /\ spotify_process' = [spotify_process EXCEPT ![w] = FALSE]

\* After the loop: self.unblock_shortcuts()
w_post_unblock(w) ==
  /\ pc[w] = "post_unblock"
  /\ blocked' = unblock_shortcuts(blocked)
  /\ Goto(w, IF variant = "B" THEN "post_f5" ELSE "end_check")
  /\ UNCHANGED << variant, failing_keys, discovery, f6, resolved, displayFields, historyFields, sessions, now, uiFields, sessionFields, hotkeyFields,
                  taskbar_hidden, polled, workerLocals, seg_log >>
  /\ tick' = NoTick

\* After the loop, variant B: keyboard.unblock_key('f5')
w_post_f5(w) ==
  /\ pc[w] = "post_f5"
  /\ blocked' = unblock_f5(blocked)
  /\ Goto(w, "end_check")
  /\ UNCHANGED << variant, failing_keys, discovery, f6, resolved, displayFields, historyFields, sessions, now, uiFields, sessionFields, hotkeyFields,
                  taskbar_hidden, polled, workerLocals, seg_log >>
  /\ tick' = NoTick

\* self.end_session() called by the worker: the guard.
w_end_check(w) ==
  /\ pc[w] = "end_check"
  /\ IF session_active
       THEN Goto(w, "end_body") /\ UNCHANGED workerLocals
       ELSE Retire(w)
  /\ stop_signalled' = IF session_active THEN stop_signalled
                                         ELSE stop_signalled \ {w}
  /\ UNCHANGED << variant, failing_keys, discovery, f6, resolved, displayFields, f5_sent, cleanups, sessions, now, uiFields, sessionFields, hotkeyFields, osFields,
                  polled, seg_log >>
  /\ tick' = NoTick

\* self.end_session() called by the worker: the body; the thread then ends.
w_end_body(w) ==
  /\ pc[w] = "end_body"
  /\ Cleanup("complete")
  /\ Retire(w)
  /\ stop_signalled' = {v \in Workers : Live(v)} \ {w}
  /\ cleanups' = cleanups + 1
  /\ UNCHANGED << variant, failing_keys, discovery, f6, resolved, displayFields, f5_sent, sessions, now, pdf_path, duration_combo, ui_pc, is_on_break,
                  current_segment_end_time, session_end_absolute_time, polled, seg_log >>
  /\ tick' = NoTick

\* The worker is at a call that is made outside every try block:
\* gw.getAllWindows() of the discovery, keyboard.add_hotkey('f6', ..), or
\* gw.getActiveWindow() of an enforcement iteration (variant B: an iteration
\* in focus mode without a segment transition).
UnguardedCall(w) ==
  \/ pc[w] = "discover"
  \/ pc[w] = "reg_hotkey" /\ RegistersHotkey
  \/ pc[w] = "body" /\ (variant = "A" \/ (~is_on_break /\ ~SegmentDue(now)))

\* Such a call raises: the exception leaves run_focus_session and the thread
\* dies where it is, without the post-loop cleanup.
w_raises(w) ==
  /\ UnguardedCall(w)
  /\ Goto(w, "crashed")
  /\ pdf_window' = [pdf_window EXCEPT ![w] = None]
  /\ spotify_window' = [spotify_window EXCEPT ![w] = None]
  /\ allowed_handles' = [allowed_handles EXCEPT ![w] = {}]
  /\ pdf_process' = [pdf_process EXCEPT ![w] = FALSE]
  /\ spotify_process' = [spotify_process EXCEPT ![w] = FALSE]
  /\ stop_signalled' = stop_signalled \ {w}
  /\ UNCHANGED << variant, failing_keys, discovery, f6, resolved, displayFields, f5_sent, cleanups, sessions, now, uiFields,
                  sessionFields, hotkeyFields, osFields, polled, seg_log >>
  /\ tick' = NoTick

\* ------------------------------------------------------------- specification
\* The code the two variants share, before and after the loop body.
WorkerCommon(w) ==
  \/ w_block(w) \/ w_hide(w) \/ w_launch(w) \/ w_discover(w)
  \/ w_store_ref(w) \/ w_reg_hotkey(w) \/ w_init_pdf(w)
  \/ w_loop_check(w)
  \/ w_post_unblock(w) \/ w_end_check(w) \/ w_end_body(w)

\* The loop body of variant B, and its unblocking of F5 after the loop.
WorkerSegments(w) ==
  \/ w_iteration_steady(w) \/ w_iteration_to_break(w)
  \/ w_iteration_to_focus(w) \/ w_post_f5(w)

Worker(w) == WorkerCommon(w) \/ w_iteration_A(w) \/ WorkerSegments(w)

\* No worker thread is alive.
Quiescent == \A w \in Workers : ~Live(w)

\* In Spec the user issues a start command that is accepted only once the
\* worker of the previous session has ended.
UI ==
  \/ select_pdf \/ choose_duration \/ start_rejected
  \/ (Quiescent /\ start_accepted)
  \/ update_timer \/ ui_end_guard \/ ui_end_body \/ reset_session

Next == UI \/ Tick \/ \E w \in Workers : Worker(w)

Spec == Init /\ [][Next]_vars

\* The segment schedule of variant B: one session of any of the six durations,
\* started with a PDF selected and never reset, followed to its natural end.
InitSegments ==
  /\ variant = "B"
  /\ now = 0
  /\ pdf_path = TRUE
  /\ duration_combo \in DurationsB
  /\ controls_enabled = TRUE
  /\ reset_enabled = FALSE
  /\ session_active = FALSE
  /\ is_on_break = FALSE
  /\ current_segment_end_time = NoTime
  /\ session_end_absolute_time = NoTime
  /\ spotify_window_ref = None
  /\ f6_hotkey_id = None
  /\ timer_overlay = FALSE
  /\ timer_active = FALSE
  /\ dialog = "none"
  /\ ui_pc = "idle"
  /\ blocked = {}
  /\ taskbar_hidden = FALSE
  /\ hotkeys = 0
  /\ sessions = 0
  /\ pc = [w \in Workers |-> "unborn"]
  /\ pdf_window = [w \in Workers |-> None]
  /\ spotify_window = [w \in Workers |-> None]
  /\ allowed_handles = [w \in Workers |-> {}]
  /\ pdf_process = [w \in Workers |-> FALSE]
  /\ spotify_process = [w \in Workers |-> FALSE]
  /\ polled = [w \in Workers |-> FALSE]
  /\ tick = NoTick
  /\ seg_log = << >>
  /\ f5_sent = 0
  /\ stop_signalled = {}
  /\ cleanups = 0
  /\ display = NoDisplay
  /\ resolved = NoResolution
  /\ ut_locals = NoLocals
  /\ discovery = NoDiscovery
  /\ f6 = NoCallback
  /\ failing_keys = {}

TickSegments == Advance(MaxTimeSegments)

NextSegments ==
  \/ (sessions = 0 /\ start_accepted)
  \/ update_timer \/ ui_end_guard \/ ui_end_body
  \/ TickSegments
  \/ \E w \in Workers : WorkerCommon(w) \/ WorkerSegments(w)

SpecSegments == InitSegments /\ [][NextSegments]_vars

\* Variant A alone: one session, started at any moment, with the clock followed
\* beyond the end of the session.
InitVariantA == Init /\ variant = "A"

TickVariantA == ClockAdvances(MaxTime)

NextVariantA ==
  \/ select_pdf \/ choose_duration \/ start_rejected
  \/ (sessions = 0 /\ start_accepted)
  \/ update_timer
  \/ TickVariantA
  \/ \E w \in Workers : WorkerCommon(w) \/ w_iteration_A(w)

SpecVariantA == InitVariantA /\ [][NextVariantA]_vars

\* Variant B with a start command accepted whenever start_btn is enabled, also
\* while the worker of a session that was reset is still alive.  The clock is
\* not advanced: everything happens within the first minutes of a session.
InitOverlap == Init /\ variant = "B"

NextOverlap ==
  \/ select_pdf \/ start_focus \/ reset_session \/ update_timer
  \/ \E w \in Workers :
       WorkerCommon(w) \/ w_iteration_steady(w) \/ w_post_f5(w)

SpecOverlap == InitOverlap /\ [][NextOverlap]_vars

\* Spec with the failures of the calls that no try block encloses.
NextFailures == Next \/ \E w \in Workers : w_raises(w)

SpecFailures == Init /\ [][NextFailures]_vars

\* One session of either variant, with the failures of the unguarded calls,
\* under fair scheduling: time advances, the QTimer slot runs when it has
\* something to do, and every worker thread that can take a step does.  The
\* user's commands and the failures themselves are under no obligation.
MaxTimeFair == 95

\* The clock is followed past the end of the longest session that can start
\* (the 90 minutes variant B has selected after construction).
TickFair == Advance(MaxTimeFair)

UITimer == update_timer \/ ui_end_guard \/ ui_end_body

NextFair ==
  \/ select_pdf \/ choose_duration
  \/ (sessions = 0 /\ start_accepted)
  \/ UITimer
  \/ TickFair
  \/ \E w \in Workers : Worker(w)
  \/ \E w \in Workers : w_raises(w)

Fairness ==
  /\ WF_vars(TickFair)
  /\ WF_vars(UITimer)
  /\ \A w \in Workers : WF_vars(Worker(w))

SpecFair == Init /\ [][NextFair]_vars /\ Fairness

\* ------------------------------------------------- executable resolution
\* sys.platform.startswith('win') / ('darwin') / anything else.
Platforms == {"win", "darwin", "linux"}

\* get_sumatra_path: the list `paths`.  os.path.expandvars is not followed:
\* a path stands for whatever it expands to.
SumatraPaths ==
  << "C:\\Program Files\\SumatraPDF\\SumatraPDF.exe",
     "C:\\Program Files (x86)\\SumatraPDF\\SumatraPDF.exe",
     "%LOCALAPPDATA%\\SumatraPDF\\SumatraPDF.exe" >>

\* get_spotify_path: user_spotify_path, which differs between the variants.
user_spotify_path ==
  IF variant = "A" THEN "Spotify\\Spotify.exe"
  ELSE "C:\\Users\\ahmed\\AppData\\Roaming\\Spotify\\Spotify.exe"

\* get_spotify_path: the paths of each platform, in the order of the code.
SpotifyPaths(platform) ==
  IF platform = "win"
    THEN << user_spotify_path,
            "%APPDATA%\\Spotify\\Spotify.exe",
            "%LOCALAPPDATA%\\Spotify\\Spotify.exe",
            "%ProgramFiles(x86)%\\Spotify\\Spotify.exe" >>
  ELSE IF platform = "darwin"
    THEN << "/Applications/Spotify.app/Contents/MacOS/Spotify" >>
  ELSE << "/usr/bin/spotify" >>

\* "for path in paths: if os.path.exists(path): return path", then None.
FirstExisting(paths, files) ==
  IF \E i \in 1..Len(paths) : paths[i] \in files
    THEN paths[CHOOSE i \in 1..Len(paths) :
                 /\ paths[i] \in files
                 /\ \A j \in 1..(i - 1) : paths[j] \notin files]
    ELSE None

get_sumatra_path(platform, files) ==
  IF platform = "win" THEN FirstExisting(SumatraPaths, files) ELSE None

\* The darwin branch returns its path without os.path.exists.
get_spotify_path(platform, files) ==
  IF platform = "darwin" THEN SpotifyPaths(platform)[1]
  ELSE FirstExisting(SpotifyPaths(platform), files)

\* Every path the two methods can probe or return.
Seq2Set(q) == {q[i] : i \in 1..Len(q)}

AllPaths ==
  Seq2Set(SumatraPaths) \cup UNION {Seq2Set(SpotifyPaths(pf)) : pf \in Platforms}

\* The two resolutions as run_focus_session makes them, on any platform and
\* with any of the paths existing on disk; one pair of calls is followed.
resolve_paths ==
  /\ resolved = NoResolution
  /\ \E pf \in Platforms, fs \in SUBSET AllPaths :
       resolved' = [platform |-> pf, files |-> fs,
                    sumatra |-> get_sumatra_path(pf, fs),
                    spotify |-> get_spotify_path(pf, fs)]
  /\ UNCHANGED << variant, failing_keys, discovery, f6, displayFields, historyFields, sessions,
                  now, uiFields, sessionFields, hotkeyFields, osFields, pc,
                  polled, workerLocals, seg_log, tick >>

NextPaths == resolve_paths

SpecPaths == Init /\ [][NextPaths]_vars

\* unblock_shortcuts called on its own, from every set of blocked keys and
\* with keyboard.unblock_key failing for any set of keys.
InitUnblock ==
  /\ InitFields
  /\ blocked \in SUBSET (GeneralKeys \cup {FullscreenKey})
  /\ failing_keys \in SUBSET GeneralKeys

call_unblock_shortcuts ==
  LET run == UnblockFrom(blocked, 1, << >>)
  IN /\ blocked' = run.blocked
     /\ tick' = TickRecord(IF run.raised THEN "unblock_raised" ELSE "unblock",
                           0, None, FALSE, None, None, run.attempted, "none",
                           "nopoll", "nopoll")
     /\ UNCHANGED << variant, failing_keys, discovery, f6, resolved, displayFields, historyFields, sessions, now,
                     uiFields, sessionFields, hotkeyFields, taskbar_hidden,
                     pc, polled, workerLocals, seg_log >>

NextUnblock == call_unblock_shortcuts

SpecUnblock == InitUnblock /\ [][NextUnblock]_vars

\* ------------------------------------------------------------ F6 hotkey
\* activate_spotify_hotkey_callback (variant B) runs on the keyboard
\* library's thread whenever F6 is pressed while the hotkey is registered.
\* A callback that does not look at session_active.
ToggleGuardRefOnly == spotify_window_ref # None

\* Its test "self.session_active and self.spotify_window_ref and ..."
ToggleGuard == session_active /\ spotify_window_ref # None

\* The calls of the try block when none of them fails.
ToggleCalls(minimized) ==
  IF minimized
    THEN << "spotify.isMinimized", "spotify.restore", "spotify.activate",
            "spotify.raise_" >>
    ELSE << "spotify.isMinimized", "spotify.minimize" >>

\* F6 pressed: the callback evaluates its test; the else branch only prints.
f6_pressed ==
  /\ variant = "B" /\ hotkeys > 0 /\ f6.pc = "idle"
  /\ f6' = IF ToggleGuard
             THEN [pc |-> "toggle", ran |-> FALSE, minimized |-> FALSE,
                   calls |-> << >>]
             ELSE [pc |-> "idle", ran |-> TRUE, minimized |-> FALSE,
                   calls |-> << >>]
  /\ tick' = NoTick
  /\ UNCHANGED << variant, failing_keys, discovery, resolved, displayFields, historyFields,
                  sessions, now, uiFields, sessionFields, hotkeyFields,
                  osFields, pc, polled, workerLocals, seg_log >>

\* The try block.  self.spotify_window_ref is read again: if end_session or
\* reset_session has cleared it in between, the attribute access raises; a
\* window call may raise as well.  "except Exception" ends the block after
\* the calls made so far.
f6_toggle ==
  /\ f6.pc = "toggle"
  /\ IF spotify_window_ref = None
       THEN f6' = [pc |-> "idle", ran |-> TRUE, minimized |-> FALSE,
                   calls |-> << >>]
       ELSE \E minimized \in BOOLEAN :
              LET all == ToggleCalls(minimized)
              IN \E failing \in 0..Len(all) :
                   f6' = [pc |-> "idle", ran |-> TRUE,
                          minimized |-> minimized,
                          calls |-> IF failing = 0 THEN all
                                    ELSE SubSeq(all, 1, failing)]
  /\ tick' = NoTick
  /\ UNCHANGED << variant, failing_keys, discovery, resolved, displayFields, historyFields,
                  sessions, now, uiFields, sessionFields, hotkeyFields,
                  osFields, pc, polled, workerLocals, seg_log >>

\* Variant B, one session, with F6 pressed at any moment.
InitHotkey == Init /\ variant = "B"

NextHotkey ==
  \/ select_pdf \/ choose_duration
  \/ (sessions = 0 /\ start_accepted)
  \/ UITimer \/ reset_session
  \/ Tick
  \/ \E w \in Workers : WorkerCommon(w) \/ WorkerSegments(w)
  \/ f6_pressed \/ f6_toggle

SpecHotkey == InitHotkey /\ [][NextHotkey]_vars

\* ------------------------------------------------------- window discovery
\* "for _ in range(15)"
DiscoveryAttempts == 15

\* Windows the directory may list.  A title is its sequence of characters;
\* `raises` is TRUE when reading w.title raises PyGetWindowException.
Chars(id, title, raises) == [id |-> id, title |-> title, raises |-> raises]

DirectoryWindows ==
  { Chars("w1", << "a", ".", "p", "d", "f" >>, FALSE),
    Chars("w2", << "B", ".", "P", "D", "F" >>, FALSE),
    Chars("w3", << "S", "p", "o", "t", "i", "f", "y" >>, FALSE),
    Chars("w4", << "s", "p", "o", "t", "i", "f", "y", ".", "p", "d", "f" >>,
          FALSE),
    Chars("w5", << "p", "d", "f", " ", "s", "p", "o", "t" >>, FALSE),
    Chars("w6", << "x", ".", "p", "d", "f" >>, TRUE) }

\* The most windows one listing holds.
MaxListing == 2

\* What gw.getAllWindows() can return: the windows in any order.
Listings ==
  UNION { { l \in [1..n -> DirectoryWindows] :
              \A i, j \in 1..n : i # j => l[i] # l[j] } : n \in 0..MaxListing }

UpperCase ==
  [c \in {"B", "P", "D", "F", "S"} |->
     CASE c = "B" -> "b" [] c = "P" -> "p" [] c = "D" -> "d"
       [] c = "F" -> "f" [] c = "S" -> "s"]

\* str.lower()
lower(title) ==
  [i \in 1..Len(title) |->
     IF title[i] \in DOMAIN UpperCase THEN UpperCase[title[i]] ELSE title[i]]

\* The `in` operator on strings.
Contains(sub, str) ==
  \E i \in 1..(Len(str) - Len(sub) + 1) :
    SubSeq(str, i, i + Len(sub) - 1) = sub

PdfPattern == << ".", "p", "d", "f" >>

SpotifyPattern == << "s", "p", "o", "t", "i", "f", "y" >>

\* A local that takes every matching window, also when it is already set.
KeepLatest(current, w, matches) == IF matches THEN w ELSE current

\* "if <pattern> in title and <local> is None: <local> = w"
KeepFirst(current, w, matches) ==
  IF matches /\ current = None THEN w ELSE current

\* "for w in all_windows": the two locals after the windows from position i
\* on have been looked at.  A title that raises is passed over.
RECURSIVE ScanWindows(_, _, _, _)
ScanWindows(all_windows, i, pw, sw) ==
  IF i > Len(all_windows) THEN [pdf_window |-> pw, spotify_window |-> sw]
  ELSE LET w == all_windows[i]
       IN IF w.raises THEN ScanWindows(all_windows, i + 1, pw, sw)
          ELSE LET title == lower(w.title)
               IN ScanWindows(all_windows, i + 1,
                    KeepFirst(pw, w.id, Contains(PdfPattern, title)),
                    KeepFirst(sw, w.id, Contains(SpotifyPattern, title)))

\* "if pdf_window and spotify_window: break"
BothFound(pw, sw) == pw # None /\ sw # None

\* One pass of "for _ in range(15)": list the windows, scan them, leave the
\* loop when both locals are set or when this was the last pass.
discovery_poll ==
  /\ ~discovery.finished
  /\ discovery.attempts < DiscoveryAttempts
  /\ \E all_windows \in Listings :
       LET found == ScanWindows(all_windows, 1, discovery.pdf_window,
                                discovery.spotify_window)
           n == discovery.attempts + 1
       IN discovery' =
            [attempts |-> n, all_windows |-> all_windows,
             pdf_window |-> found.pdf_window,
             spotify_window |-> found.spotify_window,
             finished |-> (BothFound(found.pdf_window, found.spotify_window)
                             \/ n = DiscoveryAttempts)]
  /\ UNCHANGED << variant, failing_keys, f6, resolved, displayFields, historyFields, sessions,
                  now, uiFields, sessionFields, hotkeyFields, osFields, pc,
                  polled, workerLocals, seg_log, tick >>

NextDiscovery == discovery_poll

SpecDiscovery == Init /\ [][NextDiscovery]_vars

\* ------------------------------------------------------- display refresh
\* update_timer in the steps at which it reads the fields the worker writes.
\* divmod(remaining_segment, 3600) and divmod(rem_seg, 60): the numbers that
\* "{hrs:02}:{mins:02}:{secs:02}" prints.
HoursMinutesSeconds(seconds) ==
  << seconds \div 3600, (seconds % 3600) \div 60, (seconds % 3600) % 60 >>

\* "FOCUS MODE" if not self.is_on_break else "BREAK TIME"
ModeText(on_break) == IF on_break THEN "BREAK TIME" ELSE "FOCUS MODE"

\* "#F44336" if self.is_on_break else "#81C784"
ModeColor(on_break) == IF on_break THEN "#F44336" ELSE "#81C784"

\* update_timer up to mode_text: remaining_segment, total_remaining, the test
\* of session_active and the first read of is_on_break.
ut_read ==
  /\ variant = "B" /\ ui_pc = "idle" /\ timer_active
  /\ IF session_active
       THEN /\ ut_locals' =
                 [remaining_segment |->
                    Max(0, IntSeconds(current_segment_end_time - now)),
                  total_remaining |-> TotalRemaining,
                  mode_text |-> ModeText(is_on_break)]
            /\ ui_pc' = "ut_show"
            /\ UNCHANGED display
       ELSE /\ display' = NoDisplay
            /\ UNCHANGED << ut_locals, ui_pc >>
  /\ UNCHANGED << variant, failing_keys, discovery, f6, resolved, historyFields, sessions, now,
                  pdf_path, duration_combo, controls_enabled, reset_enabled,
                  timer_overlay, timer_active, dialog, sessionFields,
                  hotkeyFields, osFields, pc, polled, workerLocals, seg_log >>
  /\ tick' = NoTick

\* The rest of update_timer: the second read of is_on_break for mode_color,
\* the call of update_timer_text if the overlay exists, and the test
\* "total_remaining == 0 and self.session_active".
ut_show ==
  /\ ui_pc = "ut_show"
  /\ display' =
       IF timer_overlay
         THEN [calls |-> 1, seconds |-> ut_locals.remaining_segment,
               text |-> HoursMinutesSeconds(ut_locals.remaining_segment),
               mode_text |-> ut_locals.mode_text,
               mode_color |-> ModeColor(is_on_break)]
         ELSE NoDisplay
  /\ IF ut_locals.total_remaining = 0 /\ session_active
       THEN timer_active' = FALSE /\ ui_pc' = "end_session"
       ELSE ui_pc' = "idle" /\ UNCHANGED timer_active
  /\ ut_locals' = NoLocals
  /\ UNCHANGED << variant, failing_keys, discovery, f6, resolved, historyFields, sessions, now,
                  pdf_path, duration_combo, controls_enabled, reset_enabled,
                  timer_overlay, dialog, sessionFields, hotkeyFields, osFields,
                  pc, polled, workerLocals, seg_log >>
  /\ tick' = NoTick

\* The clock of the display: a value between the multiples of five minutes.
DisplayStep == Minutes(3) + 15

\* The next instant the worker acts on or the display changes at.
NextBoundary ==
  LET later == {t \in {current_segment_end_time, session_end_absolute_time - 1,
                       session_end_absolute_time, NextGrid(now)} : t > now}
  IN CHOOSE t \in later : \A u \in later : t <= u

\* time.time() advances by DisplayStep, but not beyond the next boundary.
TickDisplay ==
  /\ timer_active \/ \E w \in Workers : Live(w)
  /\ now < Minutes(MaxTime)
  /\ ui_pc = "idle"
  /\ \A w \in Workers : Live(w) => polled[w]
  /\ now' = Min(now + DisplayStep, NextBoundary)
  /\ polled' = [w \in Workers |-> FALSE]
  /\ UNCHANGED << variant, failing_keys, discovery, f6, resolved, displayFields, historyFields,
                  sessions, uiFields, sessionFields, hotkeyFields, osFields,
                  pc, workerLocals, seg_log >>
  /\ tick' = NoTick

\* One session of variant B with update_timer in two steps.
InitDisplay == InitSegments /\ duration_combo = 45

NextDisplay ==
  \/ (sessions = 0 /\ start_accepted)
  \/ ut_read \/ ut_show \/ ui_end_guard \/ ui_end_body
  \/ TickDisplay
  \/ \E w \in Workers : WorkerCommon(w) \/ WorkerSegments(w)

SpecDisplay == InitDisplay /\ [][NextDisplay]_vars

\* ===================================================================== claims
\* C1: in both variants a start command issued while no PDF is selected shows
\* the validation warning and leaves the controller idle: session_active stays
\* false, neither end time is set, no key is blocked, the QTimer is not started
\* and no worker thread is spawned.
C1_StartWithoutPdfStaysIdle ==
  [][ (start_focus /\ ~pdf_path) =>
        /\ dialog' = "warning"
        /\ ~session_active'
        /\ UNCHANGED << session_active, session_end_absolute_time,
                        current_segment_end_time, is_on_break, blocked,
                        taskbar_hidden, timer_active, timer_overlay, pc,
                        sessions, controls_enabled, reset_enabled >> ]_vars

\* The warning is up in the initial idle state of variant B: nothing has started.
C1_Witness ==
  /\ variant = "B" /\ dialog = "warning" /\ ~pdf_path
  /\ ~session_active /\ session_end_absolute_time = NoTime
  /\ current_segment_end_time = NoTime
  /\ blocked = {} /\ ~timer_active /\ Quiescent /\ sessions = 0

\* ---- the segment schedule (SpecSegments)
\* The session has been started, has ended, and its worker has finished.
NaturalEnd == sessions = 1 /\ ~session_active /\ Quiescent

SegmentLength(i) == seg_log[i].to - seg_log[i].from

\* A full focus segment followed by a full break that ended within the session.
FullAlternations ==
  {i \in 1..(Len(seg_log) - 1) :
     /\ seg_log[i].mode = "F"
     /\ SegmentLength(i) = Minutes(focus_interval_minutes)
     /\ seg_log[i + 1].mode = "B"
     /\ seg_log[i + 1].from = seg_log[i].to
     /\ SegmentLength(i + 1) = Minutes(break_interval_minutes)
     /\ seg_log[i + 1].to <= session_end_absolute_time}

\* The focus segments cut short by the end of the session.
PartialSegments ==
  {i \in 1..Len(seg_log) :
     seg_log[i].mode = "F"
     /\ SegmentLength(i) < Minutes(focus_interval_minutes)}

Cycle == focus_interval_minutes + break_interval_minutes

Segment(m, a, b) == [mode |-> m, from |-> Minutes(a), to |-> Minutes(b)]

Schedule90 ==
  << Segment("F", 0, 25), Segment("B", 25, 30), Segment("F", 30, 55),
     Segment("B", 55, 60), Segment("F", 60, 85), Segment("B", 85, 90) >>

IsPrefix(s, t) == Len(s) <= Len(t) /\ s = SubSeq(t, 1, Len(s))

TickOutside == tick.kind = "enforce" /\ ~tick.allowed

\* How many times the tick made the call.
Issued(call) ==
  Cardinality({i \in 1..Len(tick.calls) : tick.calls[i] = call})

CallsOf(target) ==
  {target \o ".isMinimized", target \o ".restore", target \o ".activate",
   target \o ".raise_"}

\* The tick made a call on the window.
Touched(target) ==
  \E i \in 1..Len(tick.calls) : tick.calls[i] \in CallsOf(target)

\* The tick's calls are the first calls of the code's sequence for the window:
\* isMinimized, restore (if minimized), activate, raise_.
CallsArePrefixFor(target) ==
  \E minimized \in BOOLEAN :
    IsPrefix(tick.calls, WindowCalls(target, minimized))

\* C4 (as the code has it): in an enforcement tick whose active window is not
\* allowed, the viewer is activated at most once if its reference is present
\* (exactly once unless a window call raised, which clears the reference); else
\* the same for the player; else neither window is touched, a relaunch may be
\* attempted, and variant B activates and raises its visible overlay.  The two
\* windows are never both touched in one tick.
C4_OneTargetPerTick ==
  TickOutside =>
    /\ ~(Touched("pdf") /\ Touched("spotify"))
    /\ tick.pdf_before # None =>
         /\ CallsArePrefixFor("pdf") /\ Issued("pdf.activate") <= 1
         /\ pdf_window[tick.worker] # None => Issued("pdf.activate") = 1
         /\ tick.relaunch = "none"
    /\ (tick.pdf_before = None /\ tick.spotify_before # None) =>
         /\ CallsArePrefixFor("spotify") /\ Issued("spotify.activate") <= 1
         /\ spotify_window[tick.worker] # None => Issued("spotify.activate") = 1
         /\ tick.relaunch = "none"
    /\ (tick.pdf_before = None /\ tick.spotify_before = None) =>
         /\ ~Touched("pdf") /\ ~Touched("spotify")
         /\ tick.calls = IF variant = "B" /\ timer_overlay
                           THEN << "overlay.activateWindow", "overlay.raise_" >>
                           ELSE << >>

\* With the viewer gone, a tick restored and activated the player only.
C4_Witness ==
  /\ TickOutside /\ tick.active = "other"
  /\ tick.pdf_before = None /\ tick.spotify_before = "spotify"
  /\ tick.calls = << "spotify.isMinimized", "spotify.restore",
                     "spotify.activate", "spotify.raise_" >>

\* C4 as stated: exactly one activation of the viewer if present, else exactly
\* one of the player if present, else no window call at all.
C4_AsStated ==
  TickOutside =>
    /\ ~(Touched("pdf") /\ Touched("spotify"))
    /\ tick.pdf_before # None =>
         Issued("pdf.activate") = 1 /\ Issued("spotify.activate") = 0
    /\ (tick.pdf_before = None /\ tick.spotify_before # None) =>
         Issued("spotify.activate") = 1 /\ Issued("pdf.activate") = 0
    /\ (tick.pdf_before = None /\ tick.spotify_before = None) =>
         tick.calls = << >>

\* C5 as stated: with both window references absent, a relaunch is attempted
\* only for a process that has exited, never for one that is still running.
C5_AsStated ==
  (TickOutside /\ tick.pdf_before = None /\ tick.spotify_before = None) =>
    /\ tick.relaunch = "pdf" => tick.pdf_poll = "exited"
    /\ tick.relaunch = "spotify" => tick.spotify_poll = "exited"

\* ---- the end of a session (Spec)
\* C6: once a variant-B session has ended, by expiry or by reset, and its
\* worker thread has finished, none of alt, tab, win, esc, ctrl, f11 and f5 is
\* blocked.
C6_NothingBlockedAfterEnd ==
  (variant = "B" /\ sessions >= 1 /\ ~session_active /\ Quiescent) =>
    blocked \cap (GeneralKeys \cup {FullscreenKey}) = {}

\* A session was reset and its worker, which had found a player window and
\* registered the hotkey, has finished.
C6_Witness ==
  /\ variant = "B" /\ sessions = 1 /\ ~session_active /\ Quiescent
  /\ dialog = "reset" /\ hotkeys = 1 /\ blocked = {}

\* C7 as stated, its "only if" half once the worker has finished: while
\* session_active is false no F6 hotkey registration and no player-window
\* reference exists.
C7_NothingSurvivesInactive ==
  (~session_active /\ Quiescent) =>
    f6_hotkey_id = None /\ spotify_window_ref = None /\ hotkeys = 0

\* C8 as stated, once the worker has finished: from a forced reset until the
\* next start command session_active is false, the F6 hotkey is unregistered
\* and the taskbar is visible.
C8_ResetStaysInEffect ==
  (variant = "B" /\ dialog = "reset" /\ Quiescent) =>
    ~session_active /\ hotkeys = 0 /\ ~taskbar_hidden

\* C9: in variant A, once the clock has passed the end of the session (45
\* minutes after a start with duration 45, and likewise for the other
\* durations) the worker has left the loop and finished, session_active is
\* false, the six general keys are unblocked and the taskbar is visible; the
\* session does not end before that moment.
C9_VariantAEnds ==
  (variant = "A" /\ sessions = 1) =>
    /\ now > session_end_absolute_time =>
         /\ Quiescent
         /\ ~session_active
         /\ blocked \cap GeneralKeys = {}
         /\ ~taskbar_hidden
    /\ ~session_active => now >= session_end_absolute_time

\* A 45-minute session of variant A has ended; the clock shows 50 minutes.
C9_Witness ==
  /\ variant = "A" /\ sessions = 1 /\ duration_combo = 45
  /\ session_end_absolute_time = Minutes(45) /\ now = Minutes(50)
  /\ ~session_active /\ blocked = {} /\ ~taskbar_hidden
  /\ dialog = "complete" /\ Quiescent

\* C10 (as the code has it): whatever the two launches do, the worker goes on
\* to window discovery, reaches the loop, and enters its body when the session
\* is active and not over; no exception ends the worker thread.
C10_LaunchFailureTolerated ==
  [][ \A w \in Workers :
        /\ pc'[w] # "crashed"
        /\ (pc[w] = "launch" /\ pc'[w] # "launch") => pc'[w] = "discover"
        /\ (pc[w] = "init_pdf" /\ pc'[w] # "init_pdf") => pc'[w] = "loop_check"
        /\ (pc[w] = "loop_check" /\ pc'[w] # "loop_check" /\ LoopCondition)
             => (pc'[w] = "body" /\ session_active') ]_vars

\* Neither executable could be started, no window was found, and the worker
\* has just run an enforcement tick of a focus segment.
C10_Witness ==
  /\ tick.kind = "enforce" /\ session_active /\ ~is_on_break
  /\ \A w \in Workers :
       w = tick.worker =>
         /\ ~pdf_process[w] /\ ~spotify_process[w]
         /\ pdf_window[w] = None /\ spotify_window[w] = None
         /\ pc[w] = "loop_check"

\* C10 as stated: in the loop, the window reference of an application that
\* could not be launched is absent.
C10_AsStated ==
  \A w \in Workers :
    pc[w] \in {"loop_check", "body"} =>
      /\ ~pdf_process[w] => pdf_window[w] = None
      /\ ~spotify_process[w] => spotify_window[w] = None

\* ---- worker threads (SpecOverlap)
\* The worker is in the launch phase or in the enforcement loop.
InLaunchOrLoop(w) ==
  pc[w] \in {"block", "hide", "launch", "discover", "store_ref", "reg_hotkey",
             "init_pdf", "loop_check", "body"}

\* C11 as stated: at most one worker thread is in the launch or enforcement
\* code at a time, whatever the sequence of start and reset commands.
C11_AtMostOneWorker ==
  Cardinality({w \in Workers : InLaunchOrLoop(w)}) <= 1

\* The session is running: started, not ended or reset, its deadline not reached.
SessionRunning == session_active /\ now < session_end_absolute_time

\* C12 as stated: in a variant-B session F5 is sent to the viewer at most once,
\* and once blocked it stays blocked while the session runs, through every
\* focus and break segment.  Violated when a start command is accepted while
\* the worker of a session that was reset is still alive: both workers send F5
\* within the new session, and the old worker's post-loop unblock_key('f5')
\* releases the key the new worker has blocked.
C12_F5OnceThenBlocked ==
  [][/\ f5_sent' <= 1
     /\ (FullscreenKey \in blocked /\ SessionRunning /\ SessionRunning')
          => FullscreenKey \in blocked']_vars

\* F5 was sent twice since the last start command.
C12_SentTwice == variant = "B" /\ session_active /\ f5_sent = 2

\* C13 as stated: session_active changes from true to false only by
\* reset_session or at a moment where now >= session_end_absolute_time.
\* Violated in variant B: update_timer calls end_session as soon as
\* int(end - now) is 0, which is up to one second before the deadline.
C13_EndsOnlyAtDeadlineOrReset ==
  [][(session_active /\ ~session_active' /\ dialog' # "reset")
       => now >= session_end_absolute_time]_vars

\* A session that was never reset is over before its deadline.
C13_EndedEarly ==
  /\ sessions = 1 /\ ~session_active /\ dialog = "complete"
  /\ now < session_end_absolute_time

\* C14 as stated: no failure of an OS call made by the worker aborts the
\* session loop; the worker always reaches its post-loop cleanup.  Violated:
\* gw.getAllWindows(), keyboard.add_hotkey and gw.getActiveWindow() are called
\* outside every try block, so their failure ends the thread.
C14_NoFailureAborts == \A w \in Workers : pc[w] # "crashed"

\* A worker died of such a failure and left the session active with keys blocked.
C14_WorkerAborted ==
  /\ \E w \in Workers : pc[w] = "crashed"
  /\ Quiescent /\ session_active /\ blocked # {} /\ taskbar_hidden

\* ---- segment transitions (SpecSegments)
\* The step is a loop iteration of a worker of variant B.
IterationB == variant = "B" /\ tick' # NoTick

\* C15: in variant B an iteration makes the Focused to OnBreak transition
\* exactly when its poll finds now >= current_segment_end_time while
\* is_on_break is false; the transition sets is_on_break, calls minimize on
\* each target window whose reference is present, and sets
\* current_segment_end_time to the poll's now plus the break interval.
C15_FocusToBreak ==
  [][IterationB =>
       /\ (tick'.kind = "to_break")
            <=> (~is_on_break /\ now >= current_segment_end_time)
       /\ (is_on_break' /\ ~is_on_break) <=> (tick'.kind = "to_break")
       /\ tick'.kind = "to_break" =>
            /\ current_segment_end_time' = now + Minutes(break_interval_minutes)
            /\ Issued("pdf.minimize")' =
                 (IF tick'.pdf_before # None THEN 1 ELSE 0)
            /\ Issued("spotify.minimize")' =
                 (IF tick'.spotify_before # None THEN 1 ELSE 0)
            /\ Len(tick'.calls) <= 2]_vars

\* The break from minute 25 to minute 30 was entered with both windows present.
C15_Witness ==
  /\ tick.kind = "to_break" /\ is_on_break /\ now = Minutes(25)
  /\ current_segment_end_time = Minutes(30)
  /\ tick.calls = << "pdf.minimize", "spotify.minimize" >>

\* C16: in variant B the iteration that ends a break computes the next focus
\* length as min(focus interval, session_end_absolute_time - now); when it is
\* positive, current_segment_end_time becomes now plus that length and the
\* loop goes on in focus mode; when it is <= 0 the worker leaves the loop for
\* its post-loop cleanup and current_segment_end_time is unchanged.
C16_BreakToFocus ==
  [][(IterationB /\ is_on_break /\ ~is_on_break') =>
       LET length == Min(Minutes(focus_interval_minutes),
                         session_end_absolute_time - now)
           w == tick'.worker
       IN IF length > 0
            THEN /\ current_segment_end_time' = now + length
                 /\ pc'[w] = "loop_check"
            ELSE /\ current_segment_end_time' = current_segment_end_time
                 /\ pc'[w] = "post_unblock"]_vars

\* A 60-minute session: the second break ends at the deadline, no focus time is left
\* and the worker has left the loop.
C16_Witness ==
  /\ duration_combo = 60 /\ tick.kind = "left" /\ ~is_on_break
  /\ now = session_end_absolute_time
  /\ current_segment_end_time = Minutes(60)
  /\ pc[tick.worker] = "post_unblock"

\* ---- start command (Spec)
\* C17: the step of an accepted start command (a PDF is selected) leaves
\* session_end_absolute_time = now + the duration selected at that moment,
\* session_active true and, in variant B, is_on_break false and
\* current_segment_end_time = now + the focus interval.
C17_FieldsAfterStart ==
  [][sessions' # sessions =>
       /\ pdf_path
       /\ session_end_absolute_time' = now + Minutes(duration_combo)
       /\ session_active'
       /\ variant = "B" =>
            /\ ~is_on_break'
            /\ current_segment_end_time' =
                 now + Minutes(focus_interval_minutes)]_vars

\* The second session of variant B, started at minute 25 for 45 minutes.
C17_Witness ==
  /\ variant = "B" /\ sessions = 2 /\ duration_combo = 45
  /\ \E w \in Workers : pc[w] = "block"
  /\ now = Minutes(25) /\ session_active /\ ~is_on_break
  /\ session_end_absolute_time = Minutes(70)
  /\ current_segment_end_time = Minutes(50)

\* ---- unblock_shortcuts (SpecUnblock)
\* C18: a call of unblock_shortcuts completes without raising, calls
\* keyboard.unblock_key on every key of its list, and a second call leaves the
\* same keys blocked as the first; this from every set of blocked keys (the
\* empty one too) and whatever keys keyboard.unblock_key fails for.
C18_UnblockIdempotent ==
  [][/\ tick'.kind = "unblock"
     /\ tick'.calls = KeyList
     /\ blocked' = blocked \ (GeneralKeys \ failing_keys)
     /\ unblock_shortcuts(blocked') = blocked']_vars

\* A call from all seven keys blocked, unblock_key failing for "tab".
C18_Witness ==
  /\ tick.kind = "unblock" /\ failing_keys = {"tab"}
  /\ blocked = {"tab", FullscreenKey}

\* ---- termination signal
\* C19 as stated: a worker whose session was ended or reset (session_active
\* set to false while it was alive) leaves the loop at its next evaluation of
\* the loop condition and goes to its post-loop cleanup.  Violated when a
\* start command sets session_active again before that evaluation: the worker
\* never sees the flag false and starts another enforcement iteration.
C19_StopObservedAtNextCheck ==
  [][\A w \in Workers :
       (w \in stop_signalled /\ pc[w] = "loop_check" /\ pc'[w] # pc[w])
         => pc'[w] = "post_unblock"]_vars

\* A worker whose session was reset is in the loop body of the next session.
C19_MissedStop ==
  \E w \in stop_signalled : pc[w] = "body" /\ session_active

\* ---- who writes the session fields (Spec)
\* The step belongs to the QTimer's display refresh: update_timer and the
\* end_session it calls.
RefreshStep == update_timer \/ ui_end_guard \/ ui_end_body

\* is_on_break or one of the two end times changes in the step.
ScheduleChanges ==
  << is_on_break, current_segment_end_time, session_end_absolute_time >>'
    # << is_on_break, current_segment_end_time, session_end_absolute_time >>

IsFirstExisting(r, paths, files) ==
  \/ r = None /\ \A i \in 1..Len(paths) : paths[i] \notin files
  \/ \E i \in 1..Len(paths) :
       /\ r = paths[i] /\ paths[i] \in files
       /\ \A j \in 1..(i - 1) : paths[j] \notin files

\* C21 as stated: get_sumatra_path and get_spotify_path return the first path
\* of their ordered candidate list that exists on disk, None when none exists,
\* and never a path that does not exist.  Violated on darwin, where
\* get_spotify_path returns its path without probing it.
C21_FirstExistingPath ==
  resolved # NoResolution =>
    /\ IsFirstExisting(resolved.sumatra,
                       IF resolved.platform = "win" THEN SumatraPaths ELSE << >>,
                       resolved.files)
    /\ IsFirstExisting(resolved.spotify, SpotifyPaths(resolved.platform),
                       resolved.files)

\* On darwin a path is returned that is not on disk.
C21_ReturnsMissingPath ==
  /\ resolved.platform = "darwin"
  /\ resolved.spotify # None /\ resolved.spotify \notin resolved.files

\* ---- display refresh (SpecDisplay)
\* The step completes a refresh of the display in an active session.
RefreshCompletes ==
  ui_pc = "ut_show" /\ ui_pc' # "ut_show" /\ session_active

\* C22 as stated: each refresh of an active variant-B session calls
\* update_timer_text once, with max(0, floor(current_segment_end_time - now))
\* as hours, minutes < 60 and seconds < 60, and with the mode label and the
\* colour of the current is_on_break.  Violated when the worker makes a
\* segment transition inside update_timer: the fields are read one after the
\* other, so the label, the colour and the time can be of different segments.
C22_DisplayMatchesSession ==
  [][RefreshCompletes =>
       LET secs == Max(0, IntSeconds(current_segment_end_time - now))
           d == display'
       IN /\ d.calls = 1
          /\ d.text[1] * 3600 + d.text[2] * 60 + d.text[3] = secs
          /\ d.text[2] \in 0..59 /\ d.text[3] \in 0..59 /\ d.text[1] >= 0
          /\ d.mode_text = ModeText(is_on_break)
          /\ d.mode_color = ModeColor(is_on_break)]_vars

\* The overlay shows the focus label in the colour of a break.
C22_TornDisplay ==
  /\ session_active /\ display.calls = 1
  /\ display.mode_text = "FOCUS MODE" /\ display.mode_color = "#F44336"

\* What update_timer_text was given is a time of day: the three numbers make
\* up the seconds that were formatted, minutes and seconds below 60.
DisplayTextWellFormed ==
  display.calls = 1 =>
    /\ display.text[1] * 3600 + display.text[2] * 60 + display.text[3]
         = display.seconds
    /\ display.text[2] \in 0..59 /\ display.text[3] \in 0..59
    /\ display.text[1] >= 0 /\ display.seconds >= 0

\* ---------------------------------------------------------------------------
\* C23: in a session of variant B that has not been reset or ended, at every
\* boundary between two iterations of the loop (the worker is at the loop
\* condition) the general keys are all blocked and the taskbar is hidden if and
\* only if is_on_break is false; while is_on_break is true none of the general
\* keys is blocked and the taskbar is shown.
GeneralBlocked == GeneralKeys \subseteq blocked

GeneralUnblocked == GeneralKeys \cap blocked = {}

AtLoopBoundary(w) == variant = "B" /\ session_active /\ pc[w] = "loop_check"

C23_LockFollowsSegment ==
  \A w \in Workers :
    AtLoopBoundary(w) =>
      /\ (GeneralBlocked /\ taskbar_hidden) <=> ~is_on_break
      /\ is_on_break => (GeneralUnblocked /\ ~taskbar_hidden)

\* The boundary after the second break has begun: only F5 is still blocked.
C23_Witness ==
  \E w \in Workers :
    /\ AtLoopBoundary(w) /\ is_on_break /\ Len(seg_log) = 4
    /\ tick.kind = "to_break"
    /\ blocked = {FullscreenKey} /\ ~taskbar_hidden

\* ---------------------------------------------------------------------------
\* C24: a loop iteration of variant B that ends with is_on_break true makes no
\* enforcement: the active window is not queried, no restore, activate or
\* raise call is issued on any window (the only window calls are the minimize
\* calls that begin a break) and no process is relaunched.
IterationEnds(w) == variant = "B" /\ pc[w] = "body" /\ pc'[w] # "body"

BreakCalls == {"pdf.minimize", "spotify.minimize"}

C24_NoEnforcementOnBreak ==
  [][\A w \in Workers :
       (IterationEnds(w) /\ is_on_break') =>
         /\ tick'.kind \in {"break", "to_break"}
         /\ tick'.active = None /\ ~tick'.allowed
         /\ \A i \in 1..Len(tick'.calls) : tick'.calls[i] \in BreakCalls
         /\ tick'.relaunch = "none"
         /\ tick'.pdf_poll = "nopoll" /\ tick'.spotify_poll = "nopoll"
         /\ pdf_window'[w] = pdf_window[w]
         /\ spotify_window'[w] = spotify_window[w]]_vars

\* An iteration in the middle of the second break, both windows known.
C24_Witness ==
  /\ tick.kind = "break" /\ is_on_break /\ session_active
  /\ Len(seg_log) = 4 /\ now > seg_log[4].from
  /\ tick.pdf_before # None /\ tick.spotify_before # None

\* ---------------------------------------------------------------------------
\* C25: an enforcement tick whose active window has its handle in
\* allowed_handles, or (variant B) is the visible timer overlay, issues no
\* window call, relaunches nothing, polls no process and leaves pdf_window and
\* spotify_window as they were when the tick began.
AllowedActive(w) ==
  /\ tick'.kind = "enforce" /\ tick'.worker = w
  /\ \/ tick'.active \in allowed_handles[w]
     \/ variant = "B" /\ timer_overlay /\ tick'.active = "overlay"

C25_AllowedTickDoesNothing ==
  [][\A w \in Workers :
       AllowedActive(w) =>
         /\ tick'.allowed
         /\ tick'.calls = << >> /\ tick'.relaunch = "none"
         /\ tick'.pdf_poll = "nopoll" /\ tick'.spotify_poll = "nopoll"
         /\ pdf_window'[w] = tick'.pdf_before
         /\ spotify_window'[w] = tick'.spotify_before
         /\ spotify_window'[w] = spotify_window[w]
         /\ (tick'.pdf_before # pdf_window[w] =>
               variant = "B" /\ is_on_break /\ ~is_on_break')]_vars

\* The overlay is the active window while both target windows are known.
C25_Witness ==
  /\ variant = "B" /\ timer_overlay /\ session_active
  /\ tick.kind = "enforce" /\ tick.active = "overlay" /\ tick.allowed
  /\ tick.pdf_before = "pdf" /\ tick.spotify_before = "spotify"
  /\ pdf_window[tick.worker] = "pdf" /\ spotify_window[tick.worker] = "spotify"

\* ---------------------------------------------------------------------------
\* C26: inside the loop a window local that is None stays None for the rest of
\* the session; an enforcement tick that finds the viewer's local None makes
\* no call on the viewer and turns to the player, and with both None to the
\* relaunch branch; an enforcement tick makes a call on the player only when
\* the viewer's local is None.
InLoop(w) == pc[w] \in {"loop_check", "body"}

TickFallsBack ==
  TickOutside =>
    /\ tick.pdf_before = None => ~Touched("pdf")
    /\ (tick.pdf_before = None /\ tick.spotify_before # None) =>
         /\ Touched("spotify") /\ CallsArePrefixFor("spotify")
         /\ tick.relaunch = "none" /\ tick.pdf_poll = "nopoll"
    /\ (tick.pdf_before = None /\ tick.spotify_before = None) =>
         /\ ~Touched("spotify")
         /\ tick.pdf_poll = PollResult(pdf_process[tick.worker],
                                       tick.pdf_poll = "running")
    /\ Touched("spotify") => tick.pdf_before = None

C26_ReferencesLostForGood ==
  [][\A w \in Workers :
       (InLoop(w) /\ pc'[w] \in {"loop_check", "body"}) =>
         /\ pdf_window[w] = None => pdf_window'[w] = None
         /\ spotify_window[w] = None => spotify_window'[w] = None
         /\ TickFallsBack']_vars

\* The viewer's window was found at discovery and lost since; the player is
\* restored and activated in its place.
C26_Witness ==
  /\ TickOutside /\ tick.active = "other"
  /\ "pdf" \in allowed_handles[tick.worker]
  /\ tick.pdf_before = None /\ pdf_window[tick.worker] = None
  /\ tick.calls = << "spotify.isMinimized", "spotify.activate",
                     "spotify.raise_" >>

\* ---------------------------------------------------------------------------
\* C27: allowed_handles is assigned once, between the discovery and the first
\* loop iteration, from the window locals of that moment; no step inside the
\* loop changes it; a tick whose active window is one of its handles is
\* allowed and makes no call even when the local of that window is None.
Populates(w) == pc[w] = "init_pdf" /\ pc'[w] = "loop_check"

ThreadEnds(w) == pc'[w] \in {"done", "crashed"}

C27_AllowedHandlesFixed ==
  [][\A w \in Workers :
       /\ Populates(w) =>
            allowed_handles'[w] =
              {pdf_window'[w], spotify_window'[w]} \ {None}
       /\ allowed_handles'[w] # allowed_handles[w] =>
            (Populates(w) \/ ThreadEnds(w))
       /\ (InLoop(w) /\ tick'.kind = "enforce" /\ tick'.worker = w
             /\ tick'.active \in allowed_handles[w]) =>
            (tick'.allowed /\ tick'.calls = << >>)]_vars

\* The viewer's window is gone and its local None; a window with its handle is
\* active and the tick lets it be.
C27_Witness ==
  /\ tick.kind = "enforce" /\ tick.active = "pdf" /\ tick.allowed
  /\ tick.pdf_before = None /\ pdf_window[tick.worker] = None
  /\ allowed_handles[tick.worker] = {"pdf", "spotify"}
  /\ tick.calls = << >>

\* ---------------------------------------------------------------------------
\* C28: the body of end_session (everything after its guard "if not
\* self.session_active: return") runs at most once in a session, whichever of
\* update_timer, the worker and reset_session end it.
C28_CleanupAtMostOnce == cleanups <= 1

\* Both callers of end_session passed the guard of one session: the body has
\* run twice and the second run found the session already inactive.
C28_CleanupTwice ==
  /\ cleanups = 2 /\ ~session_active /\ dialog = "complete"
  /\ tick.kind = "none"

\* ---------------------------------------------------------------------------
\* C29: while a session of variant B is active and is_on_break is false, the
\* current segment ends no later than the session:
\* current_segment_end_time <= session_end_absolute_time.
C29_FocusEndsWithinSession ==
  (variant = "B" /\ session_active /\ ~is_on_break) =>
    current_segment_end_time <= session_end_absolute_time

\* The last focus segment of a 45-minute session, cut from 25 minutes to the
\* 15 that are left: it ends exactly with the session.
C29_Witness ==
  /\ variant = "B" /\ session_active /\ ~is_on_break
  /\ duration_combo = 45 /\ now = Minutes(30) /\ Len(seg_log) = 3
  /\ current_segment_end_time = session_end_absolute_time
  /\ session_end_absolute_time = Minutes(45)

\* ---------------------------------------------------------------------------
\* C30: every started session terminates: under fair scheduling a worker
\* thread that was started eventually ends after its post-loop cleanup, no
\* general key and no F5 stays blocked, and session_active eventually
\* becomes false, whatever the collaborators return or raise.
C30_EverySessionTerminates ==
  /\ session_active ~> ~session_active
  /\ \A w \in Workers : (pc[w] = "block") ~> (pc[w] = "done" /\ blocked = {})

\* Variant A after getActiveWindow raised: the thread is dead, the deadline
\* has passed, the session is still active and the keys are still blocked.
C30_StuckSession ==
  \E w \in Workers :
    /\ variant = "A" /\ pc[w] = "crashed"
    /\ session_active /\ now >= session_end_absolute_time
    /\ ~timer_active /\ GeneralBlocked

\* ---------------------------------------------------------------------------
\* C31: the discovery makes at most 15 polls and none after both windows have
\* been found; a local that is set is never assigned again; a local set by a
\* poll holds the first window of that listing whose readable title contains
\* ".pdf" (resp. "spotify") whatever the case of its letters.
Matches(w, pattern) ==
  /\ ~w.raises
  /\ \E i \in 1..(Len(w.title) - Len(pattern) + 1) :
       \A k \in 1..Len(pattern) :
         LET c == w.title[i + k - 1]
         IN c = pattern[k] \/ (c \in DOMAIN UpperCase /\ UpperCase[c] = pattern[k])

FirstMatch(all_windows, pattern) ==
  IF \E i \in 1..Len(all_windows) : Matches(all_windows[i], pattern)
    THEN all_windows[CHOOSE i \in 1..Len(all_windows) :
           /\ Matches(all_windows[i], pattern)
           /\ \A j \in 1..(i - 1) : ~Matches(all_windows[j], pattern)].id
    ELSE None

C31_DiscoveryBoundedKeepsFirst ==
  [][/\ discovery'.attempts <= DiscoveryAttempts
     /\ discovery'.attempts # discovery.attempts =>
          /\ discovery'.attempts = discovery.attempts + 1
          /\ ~BothFound(discovery.pdf_window, discovery.spotify_window)
     /\ discovery.pdf_window # None =>
          discovery'.pdf_window = discovery.pdf_window
     /\ discovery.spotify_window # None =>
          discovery'.spotify_window = discovery.spotify_window
     /\ discovery.pdf_window = None =>
          discovery'.pdf_window = FirstMatch(discovery'.all_windows, PdfPattern)
     /\ discovery.spotify_window = None =>
          discovery'.spotify_window =
            FirstMatch(discovery'.all_windows, SpotifyPattern)
     /\ discovery'.finished <=>
          (BothFound(discovery'.pdf_window, discovery'.spotify_window)
             \/ discovery'.attempts = DiscoveryAttempts)]_vars

\* The third poll lists a second viewer window before the player's: the
\* viewer found by an earlier poll (upper-case title) is kept, the player is
\* found and the loop is left after three polls.
C31_Witness ==
  /\ discovery.attempts = 3 /\ discovery.finished
  /\ discovery.pdf_window = "w2" /\ discovery.spotify_window = "w3"
  /\ Len(discovery.all_windows) = 2
  /\ discovery.all_windows[1].id = "w1" /\ discovery.all_windows[2].id = "w3"

\* ---------------------------------------------------------------------------
\* C32 (as the code has it): the F6 callback of variant B enters its toggle
\* only if it finds the session active and spotify_window_ref set; otherwise
\* it makes no window call.  The toggle asks isMinimized, then restores,
\* activates and raises a minimized player or minimizes the other; if a call
\* raises, or the reference was cleared after the test, the calls stop there.
\* No step of the callback changes a session field or anything else of the
\* controller.
CallbackTests == f6.pc = "idle" /\ f6' # f6

CallbackToggles == f6.pc = "toggle" /\ f6'.pc = "idle"

C32_ToggleGuardedAndFramed ==
  [][/\ CallbackTests =>
          IF session_active /\ spotify_window_ref # None
            THEN f6'.pc = "toggle"
            ELSE f6'.pc = "idle" /\ f6'.ran /\ f6'.calls = << >>
     /\ CallbackToggles =>
          /\ f6'.ran
          /\ IsPrefix(f6'.calls, ToggleCalls(f6'.minimized))
          /\ spotify_window_ref = None => f6'.calls = << >>
     /\ f6' # f6 =>
          UNCHANGED << sessionFields, hotkeyFields, osFields, uiFields,
                       workerLocals, pc, sessions >>]_vars

\* During a break a minimized player is restored, activated and raised.
C32_Witness ==
  /\ session_active /\ is_on_break /\ spotify_window_ref = "spotify"
  /\ f6.pc = "idle" /\ f6.ran /\ f6.minimized
  /\ f6.calls = << "spotify.isMinimized", "spotify.restore",
                   "spotify.activate", "spotify.raise_" >>

\* C32 as stated: a toggle that makes a window call does so while the session
\* is active and the reference present, and then a minimized player is
\* restored, activated and raised and a player that is not is minimized.
C32_AsStated ==
  [][CallbackToggles =>
       /\ f6'.calls # << >> => (session_active /\ spotify_window_ref # None)
       /\ (session_active /\ spotify_window_ref # None) =>
            f6'.calls = ToggleCalls(f6'.minimized)]_vars

=============================================================================
